---------------------------- MODULE Spec2Model ----------------------------
(***************************************************************************)
(* A state-machine model of the interactive session of FLIRImage           *)
(* (src/FlirImageProcessor.py): the two mode buttons, the rectangle        *)
(* selector, the 'a'/'t' key handler, the point-marking mouse handler, the *)
(* two colour-map sliders and the redraw (PlotImages).                     *)
(*                                                                         *)
(* Abstractions.  Temperatures are integers and display coordinates are    *)
(* whole display pixels (the code receives floats; int(x/4) of a           *)
(* non-negative float is the floor, which is what ScaleDown computes on    *)
(* whole pixels).  The temperature grid is GridW x GridH cells instead of  *)
(* 160 x 120, so the display limits 640.0 and 480.0 of the selector        *)
(* callback become Scale*GridW and Scale*GridH.  An average is kept as the *)
(* exact fraction [num, den] the code divides.  Python dict objects that   *)
(* lists alias (the selection boxes) live in `heap`, addressed by id.      *)
(*                                                                         *)
(* Spec is the interactive session.  FunctionSpec takes the functions of   *)
(* the loading and drawing code one call at a time: the byte-order fix of  *)
(* GetThermalData, RescaleImageColorMap, GetMinMaxTemperatureAndLocation   *)
(* and the frame of PlotMeasurementBoxes.                                  *)
(***************************************************************************)
EXTENDS Integers, Sequences, FiniteSets, TLC

(***************************************************************************)
(* Bounds of the model and constants of the program.                       *)
(***************************************************************************)
GridW == 4
GridH == 3
MaxItems == 3

Scale == 4

DisplayWidth == Scale * GridW
DisplayHeight == Scale * GridH

\* CurrentSelectionBox before the first accepted selection: __init__ never
\* assigns the attribute.
Unset == <<>>
NoError == "none"

\* `call` in a session, where no function is taken by itself.
NoCall == [fn |-> "none", done |-> FALSE]

VARIABLES
    ThermalData,                \* self.FlirObject['ThermalData']
    MinTemp, MaxTemp,           \* self.MinTemp, self.MaxTemp
    ThermalMin, ThermalMax,     \* self.ThermalMin, self.ThermalMax
    MeasurementPoints,          \* self.MeasurementPoints
    MeasurementBoxes,           \* self.MeasurementBoxes (ids of dicts in heap)
    OverlayBoxes,               \* self.OverlayBoxes
    MeasurementPointActive,     \* self.MeasurementPointActive
    SelectorActive,             \* self.MyToggleSelectorRS.active
    callbacks,                  \* cids connected to 'button_press_event'
    MeasurementPointMouseEventCallbackID,
    CurrentSelectionBox,        \* self.CurrentSelectionBox: <<id>> of a dict, or Unset
    heap,                       \* the selection dicts, by id
    HelpText,                   \* the texts on PlotList[5]
    AverageTexts,               \* the averages drawn on PlotList[1] by the last redraw
    event,                      \* the handler that ran last, its input and outcome
    call                        \* a function of the loading and drawing code
                                \* taken by itself: its name, arguments and result

vars == <<ThermalData, MinTemp, MaxTemp, ThermalMin, ThermalMax,
          MeasurementPoints, MeasurementBoxes, OverlayBoxes,
          MeasurementPointActive, SelectorActive, callbacks,
          MeasurementPointMouseEventCallbackID, CurrentSelectionBox, heap,
          HelpText, AverageTexts, event, call>>

ObjIds == 1 .. (MaxItems + 1)

Max(a, b) == IF a >= b THEN a ELSE b
Min(a, b) == IF a <= b THEN a ELSE b

(***************************************************************************)
(* numpy arrays: [shape |-> <<rows, cols>>, data |-> row -> col -> value]. *)
(***************************************************************************)
\* Python's slice.indices for a step of 1: where start:stop begins and how
\* many indices it holds in an axis of length n (a negative bound counts
\* from the end).
Slice(start, stop, n) ==
    LET s == IF start < 0 THEN Max(start + n, 0) ELSE Min(start, n)
        e == IF stop < 0 THEN Max(stop + n, 0) ELSE Min(stop, n)
    IN  [lo |-> s, len |-> Max(e - s, 0)]

\* arr[r1:r2, c1:c2]
GetSlice2D(arr, r1, r2, c1, c2) ==
    LET rs == Slice(r1, r2, arr.shape[1])
        cs == Slice(c1, c2, arr.shape[2])
    IN  [shape |-> <<rs.len, cs.len>>,
         data  |-> [i \in 0 .. (rs.len - 1) |->
                      [j \in 0 .. (cs.len - 1) |-> arr.data[rs.lo + i][cs.lo + j]]]]

\* arr[i, j] raises IndexError unless -n <= index < n in each axis.
IndexInBounds(arr, i, j) ==
    /\ -arr.shape[1] <= i /\ i < arr.shape[1]
    /\ -arr.shape[2] <= j /\ j < arr.shape[2]

\* arr[i, j] for an index in bounds (a negative index counts from the end).
GetItem2D(arr, i, j) ==
    arr.data[IF i < 0 THEN i + arr.shape[1] ELSE i][IF j < 0 THEN j + arr.shape[2] ELSE j]

ArrayValues(arr) ==
    {arr.data[i][j] : i \in 0 .. (arr.shape[1] - 1), j \in 0 .. (arr.shape[2] - 1)}

ArraySize(arr) == arr.shape[1] * arr.shape[2]

amin(arr) == CHOOSE v \in ArrayValues(arr) : \A w \in ArrayValues(arr) : v <= w
amax(arr) == CHOOSE v \in ArrayValues(arr) : \A w \in ArrayValues(arr) : v >= w

RECURSIVE SumRow(_, _, _)
SumRow(arr, i, j) ==
    IF j >= arr.shape[2] THEN 0 ELSE arr.data[i][j] + SumRow(arr, i, j + 1)

RECURSIVE SumRows(_, _)
SumRows(arr, i) ==
    IF i >= arr.shape[1] THEN 0 ELSE SumRow(arr, i, 0) + SumRows(arr, i + 1)

\* The mapping rounding up instead: ceil(d / 4) of a non-negative d.
ScaleDown_RoundsUp(d) == (d + Scale - 1) \div Scale

\* int(d / 4): the display-to-data mapping, truncating toward zero.
ScaleDown(d) == IF d >= 0 THEN d \div Scale ELSE -((-d) \div Scale)

(***************************************************************************)
(* The temperature grid the session is loaded with: every cell holds a     *)
(* different temperature, so that reading a wrong cell shows.              *)
(***************************************************************************)
Grids ==
    { [shape |-> <<GridH, GridW>>,
       data  |-> [r \in 0 .. (GridH - 1) |->
                    [c \in 0 .. (GridW - 1) |-> 20 + (r * GridW) + c]]] }

(***************************************************************************)
(* The inputs of the handlers.                                             *)
(***************************************************************************)
\* Press and release corners the rectangle selector may report: the whole
\* image, a region inside it, a region inside one column of cells, a region
\* of no width, and a release beyond the image.  The selector reports the
\* corners of its rectangle in ascending order, so X1 <= X2 and Y1 <= Y2.
Rect(x1, y1, x2, y2) == [X1 |-> x1, X2 |-> x2, Y1 |-> y1, Y2 |-> y2]

SelectionInputs ==
    { Rect(0, 0, DisplayWidth - 1, DisplayHeight - 1),
      Rect(2 * Scale, Scale, DisplayWidth - 1, DisplayHeight - 1),
      Rect(Scale, Scale, (2 * Scale) - 1, DisplayHeight - 1),
      Rect(Scale, Scale, Scale, DisplayHeight - 1),
      Rect(Scale, Scale, DisplayWidth, DisplayHeight - 1) }

Keys == {"a", "A", "t", "T", "x"}

\* Axes of the figure: the image axes, the k-th overlay's inset axes, any other
\* axes (colour bars, sliders, buttons, text panels), and no axes at all.
MainAxes == <<"PlotList", 1>>
OverlayAxes(k) == <<"OverlayAxes", k>>
OtherAxes == <<"OtherAxes", 0>>
NoAxes == <<"None", 0>>

\* Pointer coordinates inside the image or an overlay: one that fails the
\* callback's X1 > 1.0 test and two in different cells.
ClickXY == { <<1, Scale + 1>>, <<Scale + 1, 2>>, <<Scale + 1, (2 * Scale) + 1>> }

\* A mouse press: the axes under the pointer and the pointer's coordinates in
\* that axes.  Over no axes matplotlib reports inaxes, xdata and ydata as
\* None; the model reads "xdata is None" off inaxes = NoAxes.
\* A press in any other axes carries that axes' own coordinates, which may
\* exceed the image.
ClickInputs ==
    { [inaxes |-> h, xdata |-> xy[1], ydata |-> xy[2]] :
        h \in {MainAxes} \cup {OverlayAxes(k) : k \in 1 .. Len(OverlayBoxes)},
        xy \in ClickXY }
    \cup { [inaxes |-> OtherAxes, xdata |-> DisplayWidth + 1, ydata |-> 2] }
    \cup { [inaxes |-> NoAxes, xdata |-> 0, ydata |-> 0] }

\* The value a slider is dragged to: the coldest temperature of the grid, which
\* both sliders' ranges hold.
SliderVals == {amin(ThermalData)}

\* The points, boxes and overlays of the session so far.
Items == Len(MeasurementPoints) + Len(MeasurementBoxes) + Len(OverlayBoxes)

Mode == IF MeasurementPointActive /\ SelectorActive THEN "both"
        ELSE IF MeasurementPointActive THEN "marker"
        ELSE IF SelectorActive THEN "selector"
        ELSE "none"

\* The record of a handler run: its name, the exception it raised and the
\* mode it was entered in.
Handled(op, err) == [op |-> op, err |-> err, pre |-> Mode]

(***************************************************************************)
(* The mode buttons.  Both handlers work on the widget state                *)
(* [MeasurementPointActive, SelectorActive, callbacks, CallbackID,          *)
(* HelpText] and call each other to leave the other mode.                   *)
(***************************************************************************)
MarkerHelpText == "Temperature Markers Active"
SelectionBoxHelpText == "SelectionBox Active"

Widgets ==
    [MeasurementPointActive |-> MeasurementPointActive,
     SelectorActive |-> SelectorActive,
     callbacks |-> callbacks,
     CallbackID |-> MeasurementPointMouseEventCallbackID,
     HelpText |-> HelpText]

\* canvas.mpl_connect: the id the new connection gets.
NewCid(cbs) == CHOOSE c \in 1 .. (Cardinality(cbs) + 1) : c \notin cbs

\* canvas.mpl_disconnect(cid)
Disconnect(cbs, cid) == cbs \ {cid[1]}

RECURSIVE MarkerButtonPressed(_)
RECURSIVE SelectionButtonPressed(_)

\* The selector button handler without the branch that leaves marker mode.
SelectionButtonPressed_KeepsMarker(w) ==
    IF w.SelectorActive
    THEN [w EXCEPT !.SelectorActive = FALSE, !.HelpText = <<>>]
    ELSE [w EXCEPT !.SelectorActive = TRUE,
                   !.HelpText = Append(@, SelectionBoxHelpText)]

\* PressSelectionBoxButton
SelectionButtonPressed(w) ==
    IF w.SelectorActive
    THEN [w EXCEPT !.SelectorActive = FALSE, !.HelpText = <<>>]
    ELSE LET w1 == IF w.MeasurementPointActive THEN MarkerButtonPressed(w) ELSE w
         IN  [w1 EXCEPT !.SelectorActive = TRUE,
                        !.HelpText = Append(@, SelectionBoxHelpText)]

\* The marker button handler leaving marker mode without mpl_disconnect.
MarkerButtonPressed_KeepsCallback(w) ==
    IF w.MeasurementPointActive
    THEN [w EXCEPT !.MeasurementPointActive = FALSE, !.HelpText = <<>>]
    ELSE LET w1 == IF w.SelectorActive THEN SelectionButtonPressed(w) ELSE w
             cid == NewCid(w1.callbacks)
         IN  [w1 EXCEPT !.MeasurementPointActive = TRUE,
                        !.callbacks = @ \cup {cid},
                        !.CallbackID = <<cid>>,
                        !.HelpText = Append(@, MarkerHelpText)]

\* PressMeasurementMarkerButton
MarkerButtonPressed(w) ==
    IF w.MeasurementPointActive
    THEN [w EXCEPT !.MeasurementPointActive = FALSE,
                   !.callbacks = Disconnect(@, w.CallbackID),
                   !.HelpText = <<>>]
    ELSE LET w1 == IF w.SelectorActive THEN SelectionButtonPressed(w) ELSE w
             cid == NewCid(w1.callbacks)
         IN  [w1 EXCEPT !.MeasurementPointActive = TRUE,
                        !.callbacks = @ \cup {cid},
                        !.CallbackID = <<cid>>,
                        !.HelpText = Append(@, MarkerHelpText)]

SetWidgets(w) ==
    /\ MeasurementPointActive' = w.MeasurementPointActive
    /\ SelectorActive' = w.SelectorActive
    /\ callbacks' = w.callbacks
    /\ MeasurementPointMouseEventCallbackID' = w.CallbackID
    /\ HelpText' = w.HelpText

(***************************************************************************)
(* Region extraction, averages and the redraw.                             *)
(***************************************************************************)
\* The same slice taken with its stop index included.
ExtractRegion_StopIncluded(box) ==
    GetSlice2D(ThermalData, ScaleDown(box.Y1) - 1, ScaleDown(box.Y2) + 1,
               ScaleDown(box.X1) - 1, ScaleDown(box.X2) + 1)

\* ThermalData[NewY1-1:NewY2, NewX1-1:NewX2] for a selection dict.
ExtractRegion(box) ==
    LET NewX1 == ScaleDown(box.X1)
        NewY1 == ScaleDown(box.Y1)
        NewX2 == ScaleDown(box.X2)
        NewY2 == ScaleDown(box.Y2)
    IN  GetSlice2D(ThermalData, NewY1 - 1, NewY2, NewX1 - 1, NewX2)

\* sum(sum(NewTemperatureArray)) / NewTemperatureArray.size.  Over an array
\* of zero rows the inner sum is the int 0 and the outer sum raises
\* TypeError; over rows of zero columns the division is 0/0.
AverageTemperature(box) ==
    LET arr == ExtractRegion(box)
    IN  IF arr.shape[1] = 0 THEN [err |-> "TypeError", num |-> 0, den |-> 0]
        ELSE IF ArraySize(arr) = 0
             THEN [err |-> "ZeroDivisionError", num |-> 0, den |-> 0]
             ELSE [err |-> NoError, num |-> SumRows(arr, 0), den |-> ArraySize(arr)]

\* PlotMeasurementBoxes: the averages drawn, in list order, up to the first
\* box whose average raises.  Every average is computed by the call; `fresh`
\* is the position of the box the running handler appended (0 for none), and
\* a text of any other box is marked as computed again for a box that was
\* there before.
RECURSIVE PlotMeasurementBoxes(_, _, _, _, _)
PlotMeasurementBoxes(boxes, hp, i, drawn, fresh) ==
    IF i > Len(boxes) THEN [texts |-> drawn, err |-> NoError]
    ELSE LET a == AverageTemperature(hp[boxes[i]])
         IN  IF a.err # NoError THEN [texts |-> drawn, err |-> a.err]
             ELSE PlotMeasurementBoxes(boxes, hp, i + 1,
                                       Append(drawn, [num |-> a.num, den |-> a.den,
                                                      recomputed |-> (i # fresh)]),
                                       fresh)

\* PlotImages: clears the image axes and draws everything again.
PlotImages(boxes, hp, fresh) == PlotMeasurementBoxes(boxes, hp, 1, <<>>, fresh)

(***************************************************************************)
(* The rectangle selector's callback.                                      *)
(***************************************************************************)
Referenced(boxes) == {boxes[i] : i \in 1 .. Len(boxes)}

\* The id of a dict that no list refers to.
NewId(boxes) == CHOOSE id \in ObjIds : id \notin Referenced(boxes)

\* The callback writing the corners into the dict the attribute already
\* refers to.
StoreSelection_InPlace(sel, boxes, cur, hp) ==
    IF cur = Unset
    THEN [cur |-> <<NewId(boxes)>>,
          heap |-> [o \in Referenced(boxes) \cup {NewId(boxes)} |->
                       IF o = NewId(boxes) THEN sel ELSE hp[o]]]
    ELSE [cur |-> cur, heap |-> [hp EXCEPT ![cur[1]] = sel]]

\* NewDict = dict(); ...; self.CurrentSelectionBox = NewDict.  The dict the
\* attribute referred to before is collected unless a list still holds it.
StoreSelection(sel, boxes, cur, hp) ==
    LET id == NewId(boxes)
    IN  [cur |-> <<id>>,
         heap |-> [o \in Referenced(boxes) \cup {id} |-> IF o = id THEN sel ELSE hp[o]]]

SelectionBoxMouseClickCallback(sel) ==
    /\ SelectorActive
    /\ LET accepted == /\ sel.X1 < DisplayWidth /\ sel.X2 < DisplayWidth
                       /\ sel.Y1 < DisplayHeight /\ sel.Y2 < DisplayHeight
           st == IF accepted
                 THEN StoreSelection(sel, MeasurementBoxes, CurrentSelectionBox, heap)
                 ELSE [cur |-> CurrentSelectionBox, heap |-> heap]
       IN  /\ CurrentSelectionBox' = st.cur
           /\ heap' = st.heap
    /\ event' = Handled("SelectionBoxMouseClickCallback", NoError)
    /\ UNCHANGED <<call, ThermalData, MinTemp, MaxTemp, ThermalMin, ThermalMax,
                   MeasurementPoints, MeasurementBoxes, OverlayBoxes,
                   MeasurementPointActive, SelectorActive, callbacks,
                   MeasurementPointMouseEventCallbackID, HelpText, AverageTexts>>

(***************************************************************************)
(* The 'a' and 't' keys.                                                   *)
(***************************************************************************)
\* The handler putting the new box first instead of last.
CreateAverageTemperatureBox_Prepends(boxes, cur, hp, texts) ==
    IF cur = Unset
    THEN [boxes |-> boxes, texts |-> texts, err |-> "AttributeError"]
    ELSE LET inserted == <<cur[1]>> \o boxes
             drawn == PlotImages(inserted, hp, 1)
         IN  [boxes |-> inserted, texts |-> drawn.texts, err |-> drawn.err]

\* CreateAverageTemperatureBox: [boxes, texts, err] after the call.
CreateAverageTemperatureBox(boxes, cur, hp, texts) ==
    IF cur = Unset
    THEN [boxes |-> boxes, texts |-> texts, err |-> "AttributeError"]
    ELSE LET appended == Append(boxes, cur[1])
             drawn == PlotImages(appended, hp, Len(appended))
         IN  [boxes |-> appended, texts |-> drawn.texts, err |-> drawn.err]

\* The overlay dict AddOverlayBox builds for a selection, or the exception
\* it raises on the way: 1000/PixelWidth and 100*(..)/PixelHeight divide by
\* zero, Image.resize refuses a size below 1 and numpy.amin refuses an empty
\* array.  The inset axes made before the exception stay on the figure; a
\* click on them is a click on OtherAxes.
BuildOverlay(box, axes) ==
    LET PixelWidth == box.X2 - box.X1
        PixelHeight == box.Y2 - box.Y1
        arr == ExtractRegion(box)
        err == IF PixelHeight = 0 \/ PixelWidth = 0 THEN "ZeroDivisionError"
               ELSE IF PixelWidth < 1 \/ PixelHeight < 1 \/ ArraySize(arr) = 0
                    THEN "ValueError"
                    ELSE NoError
    IN  [err |-> err,
         dict |-> [PixelWidth |-> PixelWidth,
                   PixelHeight |-> PixelHeight,
                   OverlayAxes |-> axes,
                   TemperatureArray |-> arr,
                   ThermalMin |-> IF ArraySize(arr) = 0 THEN 0 ELSE amin(arr),
                   ThermalMax |-> IF ArraySize(arr) = 0 THEN 0 ELSE amax(arr)]]

\* The handler appending the dict before its arrays are built.
AddOverlayBox_AppendsFirst(overlays, boxes, cur, hp, texts) ==
    IF cur = Unset
    THEN [overlays |-> overlays, texts |-> texts, err |-> "AttributeError"]
    ELSE LET built == BuildOverlay(hp[cur[1]], OverlayAxes(Len(overlays) + 1))
         IN  IF built.err # NoError
             THEN [overlays |-> Append(overlays, built.dict), texts |-> texts,
                   err |-> built.err]
             ELSE LET drawn == PlotImages(boxes, hp, 0)
                  IN  [overlays |-> Append(overlays, built.dict),
                       texts |-> drawn.texts, err |-> drawn.err]

\* AddOverlayBox: [overlays, texts, err] after the call.
AddOverlayBox(overlays, boxes, cur, hp, texts) ==
    IF cur = Unset
    THEN [overlays |-> overlays, texts |-> texts, err |-> "AttributeError"]
    ELSE LET built == BuildOverlay(hp[cur[1]], OverlayAxes(Len(overlays) + 1))
         IN  IF built.err # NoError
             THEN [overlays |-> overlays, texts |-> texts, err |-> built.err]
             ELSE LET drawn == PlotImages(boxes, hp, 0)
                  IN  [overlays |-> Append(overlays, built.dict),
                       texts |-> drawn.texts, err |-> drawn.err]

ProcessKeyPresses(key) ==
    /\ key \in {"A", "a", "T", "t"} => Items < MaxItems
    /\ LET a == IF key \in {"A", "a"} /\ SelectorActive
                THEN CreateAverageTemperatureBox(MeasurementBoxes, CurrentSelectionBox,
                                                 heap, AverageTexts)
                ELSE [boxes |-> MeasurementBoxes, texts |-> AverageTexts, err |-> NoError]
           t == IF a.err = NoError /\ key \in {"T", "t"} /\ SelectorActive
                THEN AddOverlayBox(OverlayBoxes, a.boxes, CurrentSelectionBox,
                                   heap, a.texts)
                ELSE [overlays |-> OverlayBoxes, texts |-> a.texts, err |-> a.err]
       IN  /\ MeasurementBoxes' = a.boxes
           /\ OverlayBoxes' = t.overlays
           /\ AverageTexts' = t.texts
           /\ event' = Handled(IF ~SelectorActive THEN "ProcessKeyPresses"
                               ELSE IF key \in {"A", "a"} THEN "CreateAverageTemperatureBox"
                               ELSE IF key \in {"T", "t"} THEN "AddOverlayBox"
                               ELSE "ProcessKeyPresses", t.err)
    /\ UNCHANGED <<call, ThermalData, MinTemp, MaxTemp, ThermalMin, ThermalMax,
                   MeasurementPoints, MeasurementPointActive, SelectorActive,
                   callbacks, MeasurementPointMouseEventCallbackID,
                   CurrentSelectionBox, heap, HelpText>>

(***************************************************************************)
(* Point marking.                                                          *)
(***************************************************************************)
\* The loop over self.OverlayBoxes (it has no break): the temperature the
\* last overlay with the click's axes gives, or the IndexError its array
\* raises.
RECURSIVE OverlayLookup(_, _, _, _)
OverlayLookup(overlays, ev, i, found) ==
    IF i > Len(overlays) THEN found
    ELSE IF ev.inaxes = overlays[i].OverlayAxes
         THEN LET arr == overlays[i].TemperatureArray
                  r == ScaleDown(ev.ydata)
                  c == ScaleDown(ev.xdata)
              IN  IF IndexInBounds(arr, r, c)
                  THEN OverlayLookup(overlays, ev, i + 1,
                                     [err |-> NoError, AxesFound |-> TRUE,
                                      Temperature |-> GetItem2D(arr, r, c)])
                  ELSE [err |-> "IndexError", AxesFound |-> TRUE, Temperature |-> 0]
         ELSE OverlayLookup(overlays, ev, i + 1, found)

\* The lookup reading the base grid whatever axes the click is in.
SampleTemperature_BaseOnly(overlays, ev) ==
    LET r == ScaleDown(ev.ydata)
        c == ScaleDown(ev.xdata)
    IN  IF IndexInBounds(ThermalData, r, c)
        THEN [err |-> NoError, AxesFound |-> FALSE,
              Temperature |-> GetItem2D(ThermalData, r, c)]
        ELSE [err |-> "IndexError", AxesFound |-> FALSE, Temperature |-> 0]

\* The lookup reading the base grid's last row or column for an index past it.
SampleTemperature_Clamped(overlays, ev) ==
    LET o == OverlayLookup(overlays, ev, 1,
                           [err |-> NoError, AxesFound |-> FALSE, Temperature |-> 0])
        r == Min(ScaleDown(ev.ydata), ThermalData.shape[1] - 1)
        c == Min(ScaleDown(ev.xdata), ThermalData.shape[2] - 1)
    IN  IF o.err # NoError \/ o.AxesFound THEN o
        ELSE [err |-> NoError, AxesFound |-> FALSE,
              Temperature |-> GetItem2D(ThermalData, r, c)]

\* NewTemperature of lines 218-225.
SampleTemperature(overlays, ev) ==
    LET o == OverlayLookup(overlays, ev, 1,
                           [err |-> NoError, AxesFound |-> FALSE, Temperature |-> 0])
        r == ScaleDown(ev.ydata)
        c == ScaleDown(ev.xdata)
    IN  IF o.err # NoError \/ o.AxesFound THEN o
        ELSE IF IndexInBounds(ThermalData, r, c)
             THEN [err |-> NoError, AxesFound |-> FALSE,
                   Temperature |-> GetItem2D(ThermalData, r, c)]
             ELSE [err |-> "IndexError", AxesFound |-> FALSE, Temperature |-> 0]

\* AddMeasurementPointMouseClickCallback: [points, err] after the call.
AddMeasurementPointMouseClickCallback(points, overlays, ev) ==
    IF ev.inaxes = NoAxes THEN [points |-> points, err |-> "TypeError"]
    ELSE IF ~(ev.xdata > 1 /\ ev.ydata > 1) THEN [points |-> points, err |-> NoError]
    ELSE LET t == SampleTemperature(overlays, ev)
         IN  IF t.err # NoError THEN [points |-> points, err |-> t.err]
             ELSE [points |-> Append(points, [X |-> ev.xdata, Y |-> ev.ydata,
                                               HostAxes |-> ev.inaxes,
                                               Temperature |-> t.Temperature]),
                   err |-> NoError]

\* The canvas runs every connected handler on the event; an exception in one
\* is reported and the next still runs.
RECURSIVE Dispatch(_, _, _, _)
Dispatch(n, points, overlays, ev) ==
    IF n = 0 THEN [points |-> points, err |-> NoError, calls |-> 0]
    ELSE LET before == Dispatch(n - 1, points, overlays, ev)
             r == AddMeasurementPointMouseClickCallback(before.points, overlays, ev)
         IN  [points |-> r.points,
              err |-> IF r.err # NoError THEN r.err ELSE before.err,
              calls |-> before.calls + 1]

\* A mouse press on the canvas ('button_press_event').
ButtonPressEvent(ev) ==
    /\ Items + Cardinality(callbacks) <= MaxItems
    /\ LET r == Dispatch(Cardinality(callbacks), MeasurementPoints, OverlayBoxes, ev)
       IN  /\ MeasurementPoints' = r.points
           /\ event' = Handled("button_press_event",
                               IF r.calls = 0 THEN "unhandled" ELSE r.err)
    /\ UNCHANGED <<call, ThermalData, MinTemp, MaxTemp, ThermalMin, ThermalMax,
                   MeasurementBoxes, OverlayBoxes, MeasurementPointActive,
                   SelectorActive, callbacks, MeasurementPointMouseEventCallbackID,
                   CurrentSelectionBox, heap, HelpText, AverageTexts>>

(***************************************************************************)
(* The buttons and the sliders.                                            *)
(***************************************************************************)
PressMeasurementMarkerButton ==
    /\ SetWidgets(MarkerButtonPressed(Widgets))
    /\ event' = Handled("PressMeasurementMarkerButton", NoError)
    /\ UNCHANGED <<call, ThermalData, MinTemp, MaxTemp, ThermalMin, ThermalMax,
                   MeasurementPoints, MeasurementBoxes, OverlayBoxes,
                   CurrentSelectionBox, heap, AverageTexts>>

PressSelectionBoxButton ==
    /\ SetWidgets(SelectionButtonPressed(Widgets))
    /\ event' = Handled("PressSelectionBoxButton", NoError)
    /\ UNCHANGED <<call, ThermalData, MinTemp, MaxTemp, ThermalMin, ThermalMax,
                   MeasurementPoints, MeasurementBoxes, OverlayBoxes,
                   CurrentSelectionBox, heap, AverageTexts>>

LowerSliderUpdate(val) ==
    /\ MinTemp' = val
    /\ ThermalMin' = val
    /\ LET drawn == PlotImages(MeasurementBoxes, heap, 0)
       IN  /\ AverageTexts' = drawn.texts
           /\ event' = Handled("LowerSliderUpdate", drawn.err)
    /\ UNCHANGED <<call, ThermalData, MaxTemp, ThermalMax, MeasurementPoints,
                   MeasurementBoxes, OverlayBoxes, MeasurementPointActive,
                   SelectorActive, callbacks, MeasurementPointMouseEventCallbackID,
                   CurrentSelectionBox, heap, HelpText>>

UpperSliderUpdate(val) ==
    /\ MaxTemp' = val
    /\ ThermalMax' = val
    /\ LET drawn == PlotImages(MeasurementBoxes, heap, 0)
       IN  /\ AverageTexts' = drawn.texts
           /\ event' = Handled("UpperSliderUpdate", drawn.err)
    /\ UNCHANGED <<call, ThermalData, MinTemp, ThermalMin, MeasurementPoints,
                   MeasurementBoxes, OverlayBoxes, MeasurementPointActive,
                   SelectorActive, callbacks, MeasurementPointMouseEventCallbackID,
                   CurrentSelectionBox, heap, HelpText>>

(***************************************************************************)
(* The session: __init__, CreateFigure, PlotImages, AddWidgets, then the   *)
(* event loop of ShowFigure.                                               *)
(***************************************************************************)
Init ==
    /\ ThermalData \in Grids
    /\ MinTemp = amin(ThermalData)
    /\ MaxTemp = amax(ThermalData)
    /\ ThermalMin = amin(ThermalData)
    /\ ThermalMax = amax(ThermalData)
    /\ MeasurementPoints = <<>>
    /\ MeasurementBoxes = <<>>
    /\ OverlayBoxes = <<>>
    /\ MeasurementPointActive = FALSE
    /\ SelectorActive = FALSE
    /\ callbacks = {}
    /\ MeasurementPointMouseEventCallbackID = <<>>
    /\ CurrentSelectionBox = Unset
    /\ heap = <<>>
    /\ HelpText = <<>>
    /\ AverageTexts = <<>>
    /\ event = [op |-> "AddWidgets", err |-> NoError, pre |-> "none"]
    /\ call = NoCall

Next ==
    \/ PressMeasurementMarkerButton
    \/ PressSelectionBoxButton
    \/ \E sel \in SelectionInputs : SelectionBoxMouseClickCallback(sel)
    \/ \E key \in Keys : ProcessKeyPresses(key)
    \/ \E ev \in ClickInputs : ButtonPressEvent(ev)
    \/ \E val \in SliderVals : LowerSliderUpdate(val)
    \/ \E val \in SliderVals : UpperSliderUpdate(val)

Spec == Init /\ [][Next]_vars

(***************************************************************************)
(* The functions of the loading and drawing code taken by themselves: the  *)
(* byte-order fix of GetThermalData, RescaleImageColorMap,                 *)
(* GetMinMaxTemperatureAndLocation and the frame PlotMeasurementBoxes      *)
(* draws.  `call` starts as a pending call with its arguments and the      *)
(* function's action completes it with the value returned.                 *)
(***************************************************************************)
MaxCoord == 9
SmallW == 2
SmallH == 2
MaxTemperature == 1

Pending(fn, args) == [fn |-> fn, args |-> args, done |-> FALSE, ret |-> <<>>]

\* index * 4: the data-to-display mapping.
ScaleUp(i) == Scale * i

\* patches.Rectangle((NewX1*4, NewY1*4), (NewX2-NewX1)*4, (NewY2-NewY1)*4): the
\* frame PlotMeasurementBoxes draws for a box.
RectangleFrame(box) ==
    LET NewX1 == ScaleDown(box.X1)
        NewY1 == ScaleDown(box.Y1)
        NewX2 == ScaleDown(box.X2)
        NewY2 == ScaleDown(box.Y2)
    IN  [x |-> ScaleUp(NewX1), y |-> ScaleUp(NewY1),
         width |-> ScaleUp(NewX2 - NewX1), height |-> ScaleUp(NewY2 - NewY1)]

\* Boxes with a corner at every display pixel up to MaxCoord in each axis.
FrameInputs ==
    {Rect(x, y, x + Scale, y + Scale) : x \in 0 .. MaxCoord, y \in 0 .. MaxCoord}

\* Every grid of SmallH rows and SmallW columns of the temperatures
\* 0 .. MaxTemperature: grids with the extreme value in one cell, in several
\* cells and in all of them.
SmallGrids ==
    { [shape |-> <<SmallH, SmallW>>, data |-> d] :
        d \in [0 .. (SmallH - 1) -> [0 .. (SmallW - 1) -> 0 .. MaxTemperature]] }

\* The indices numpy.where(arr == v) gives from flat position k on.  where
\* scans in C order: the rows from the first to the last and each row from its
\* first column to its last.
RECURSIVE where_ColumnMajor(_, _, _)
where_ColumnMajor(arr, v, k) ==
    IF k >= ArraySize(arr) THEN <<>>
    ELSE LET r == k % arr.shape[1]
             c == k \div arr.shape[1]
         IN  (IF arr.data[r][c] = v THEN <<[Y |-> r, X |-> c]>> ELSE <<>>)
                \o where_ColumnMajor(arr, v, k + 1)

RECURSIVE where(_, _, _)
where(arr, v, k) ==
    IF k >= ArraySize(arr) THEN <<>>
    ELSE LET r == k \div arr.shape[2]
             c == k % arr.shape[2]
         IN  (IF arr.data[r][c] = v THEN <<[Y |-> r, X |-> c]>> ELSE <<>>)
                \o where(arr, v, k + 1)

\* GetMinMaxTemperatureAndLocation, on self.FlirObject['ThermalData'].
GetMinMaxTemperatureAndLocation ==
    LET MinLocation == where(ThermalData, amin(ThermalData), 0)
        MaxLocation == where(ThermalData, amax(ThermalData), 0)
    IN  [MinTemperature |-> GetItem2D(ThermalData, MinLocation[1].Y, MinLocation[1].X),
         MaxTemperature |-> GetItem2D(ThermalData, MaxLocation[1].Y, MaxLocation[1].X),
         MinLocation |-> <<ScaleUp(MinLocation[1].X), ScaleUp(MinLocation[1].Y)>>,
         MaxLocation |-> <<ScaleUp(MaxLocation[1].X), ScaleUp(MaxLocation[1].Y)>>]

\* numpy's true division n / d, kept as the fraction.  Dividing by zero
\* raises nothing in numpy: it warns, and 0 / 0 is nan (den = 0).
TrueDivide(n, d) == [num |-> n, den |-> d]

\* RescaleImageColorMap:
\* (ImageArray - amin(ImageArray)) / (amax(ImageArray) - amin(ImageArray)).
RescaleImageColorMap(ImageArray) ==
    LET lo == amin(ImageArray)
        hi == amax(ImageArray)
    IN  [err |-> NoError,
         NormalizedImage |->
            [shape |-> ImageArray.shape,
             data  |-> [i \in 0 .. (ImageArray.shape[1] - 1) |->
                          [j \in 0 .. (ImageArray.shape[2] - 1) |->
                             TrueDivide(ImageArray.data[i][j] - lo, hi - lo)]]]]

\* The raw thermal image is a 16-bit PNG: numpy holds its values as uint16,
\* and every operation on them keeps 16 bits.
ByteBits == 8
LowByteMask == 255
WordBits == 2 * ByteBits
RawValues == 0 .. ((2 ^ WordBits) - 1)

right_shift(x, n) == x \div (2 ^ n)
left_shift(x, n) == (x * (2 ^ n)) % (2 ^ WordBits)
add(x, y) == (x + y) % (2 ^ WordBits)

\* x & m, bit by bit from bit i up.
RECURSIVE bitwise_and(_, _, _)
bitwise_and(x, m, i) ==
    IF i >= WordBits THEN 0
    ELSE (((x \div (2 ^ i)) % 2) * ((m \div (2 ^ i)) % 2) * (2 ^ i))
            + bitwise_and(x, m, i + 1)

\* Strings are sequences of characters.  The two values ExifTool prints for
\* ExifByteOrder:
LittleEndian ==
    <<"L", "i", "t", "t", "l", "e", "-", "e", "n", "d", "i", "a", "n", " ", "(", "I", "n", "t", "e", "l", ",", " ", "I", "I", ")">>
BigEndian ==
    <<"B", "i", "g", "-", "e", "n", "d", "i", "a", "n", " ", "(", "M", "o", "t", "o", "r", "o", "l", "a", ",", " ", "M", "M", ")">>
ByteOrders == {LittleEndian, BigEndian}
Little == <<"L", "i", "t", "t", "l", "e">>

\* str.split(sep): the parts of s from position i on; `part` is the part
\* read so far.
RECURSIVE split(_, _, _, _)
split(s, sep, i, part) ==
    IF i > Len(s) THEN <<part>>
    ELSE IF s[i] = sep THEN <<part>> \o split(s, sep, i + 1, <<>>)
         ELSE split(s, sep, i + 1, Append(part, s[i]))

\* The byte-order fix applied whatever byte order is declared.
GetThermalData_SwapsEveryOrder(ImageData, ExifByteOrder) ==
    add(right_shift(ImageData, ByteBits),
        left_shift(bitwise_and(ImageData, LowByteMask, 0), ByteBits))

\* GetThermalData up to line 152: ImageData after the byte-order fix.  The
\* conversion to temperatures that follows maps the values one by one.
GetThermalData(ImageData, ExifByteOrder) ==
    IF split(ExifByteOrder, "-", 1, <<>>)[1] = Little
    THEN add(right_shift(ImageData, ByteBits),
             left_shift(bitwise_and(ImageData, LowByteMask, 0), ByteBits))
    ELSE ImageData

\* The pending call returns.
Return(ret) ==
    /\ call' = [call EXCEPT !.done = TRUE, !.ret = ret]
    /\ UNCHANGED <<ThermalData, MinTemp, MaxTemp, ThermalMin, ThermalMax,
                   MeasurementPoints, MeasurementBoxes, OverlayBoxes,
                   MeasurementPointActive, SelectorActive, callbacks,
                   MeasurementPointMouseEventCallbackID, CurrentSelectionBox,
                   heap, HelpText, AverageTexts, event>>

DrawRectangleFrame ==
    /\ call.fn = "PlotMeasurementBoxes"
    /\ ~call.done
    /\ Return(RectangleFrame(call.args))

\* PlotMinMaxMarkers: the markers are drawn where the query says.
PlotMinMaxMarkers ==
    /\ call.fn = "PlotMinMaxMarkers"
    /\ ~call.done
    /\ Return(GetMinMaxTemperatureAndLocation)

\* ThermalImageToSave = self.RescaleImageColorMap(self.NewThermalImage)
RescaleThermalImage ==
    /\ call.fn = "RescaleImageColorMap"
    /\ ~call.done
    /\ Return(RescaleImageColorMap(call.args))

\* FlirDataDict['ThermalData'] = self.GetThermalData(..., ExifByteOrder)
GetFlirFileData ==
    /\ call.fn = "GetThermalData"
    /\ ~call.done
    /\ Return(GetThermalData(call.args.ImageData, call.args.ExifByteOrder))

FunctionInit ==
    /\ \/ /\ call = Pending("PlotMinMaxMarkers", <<>>)
          /\ ThermalData \in SmallGrids
       \/ /\ \/ \E box \in FrameInputs : call = Pending("PlotMeasurementBoxes", box)
             \/ \E arr \in SmallGrids : call = Pending("RescaleImageColorMap", arr)
             \/ \E raw \in RawValues, order \in ByteOrders :
                   call = Pending("GetThermalData",
                                  [ImageData |-> raw, ExifByteOrder |-> order])
          /\ ThermalData \in Grids
    /\ MinTemp = amin(ThermalData)
    /\ MaxTemp = amax(ThermalData)
    /\ ThermalMin = amin(ThermalData)
    /\ ThermalMax = amax(ThermalData)
    /\ MeasurementPoints = <<>>
    /\ MeasurementBoxes = <<>>
    /\ OverlayBoxes = <<>>
    /\ MeasurementPointActive = FALSE
    /\ SelectorActive = FALSE
    /\ callbacks = {}
    /\ MeasurementPointMouseEventCallbackID = <<>>
    /\ CurrentSelectionBox = Unset
    /\ heap = <<>>
    /\ HelpText = <<>>
    /\ AverageTexts = <<>>
    /\ event = [op |-> "__init__", err |-> NoError, pre |-> "none"]

FunctionNext ==
    \/ DrawRectangleFrame
    \/ PlotMinMaxMarkers
    \/ RescaleThermalImage
    \/ GetFlirFileData

FunctionSpec == FunctionInit /\ [][FunctionNext]_vars

(***************************************************************************)
(* Properties.                                                             *)
(***************************************************************************)
IsPrefix(s, t) == Len(s) <= Len(t) /\ SubSeq(t, 1, Len(s)) = s

Last(s) == s[Len(s)]

\* The dicts MeasurementBoxes refers to, in list order.
BoxValues == [i \in 1 .. Len(MeasurementBoxes) |-> heap[MeasurementBoxes[i]]]

\* The clicks that pass the callback's X1 > 1.0 and Y1 > 1.0 test.
SamplingClicks ==
    {ev \in ClickInputs : ev.inaxes # NoAxes /\ ev.xdata > 1 /\ ev.ydata > 1}

\* The overlays whose axes a click is in, by position in OverlayBoxes.
Claimers(ev) ==
    {k \in 1 .. Len(OverlayBoxes) : OverlayBoxes[k].OverlayAxes = ev.inaxes}

FirstClaimer(ev) == CHOOSE k \in Claimers(ev) : \A m \in Claimers(ev) : k <= m

\* The grid a click is read from: the earliest overlay claiming it, or the
\* base grid.
GridOf(ev) ==
    IF Claimers(ev) # {} THEN OverlayBoxes[FirstClaimer(ev)].TemperatureArray
    ELSE ThermalData

\* The data index of a click lies in the grid it is read from.
InGrid(ev) ==
    /\ ScaleDown(ev.ydata) \in 0 .. (GridOf(ev).shape[1] - 1)
    /\ ScaleDown(ev.xdata) \in 0 .. (GridOf(ev).shape[2] - 1)

\* C1: the two modes are never on together, and pressing the button of the
\* mode that is off while the other mode is on ends with the pressed mode on
\* and the other off.
C1_ModesExclusive ==
    /\ ~(MeasurementPointActive /\ SelectorActive)
    /\ (event.op = "PressMeasurementMarkerButton" /\ event.pre = "selector")
          => (MeasurementPointActive /\ ~SelectorActive)
    /\ (event.op = "PressSelectionBoxButton" /\ event.pre = "marker")
          => (SelectorActive /\ ~MeasurementPointActive)

C1_Witness ==
    /\ event.op = "PressMeasurementMarkerButton"
    /\ event.pre = "selector"
    /\ MeasurementPointActive

\* C2: a point sample runs only in point-marking mode, and an overlay or
\* average-box creation runs only in region-selecting mode and on a selection
\* rectangle that was drawn before the key press.
C2_OperationsOnlyInModeOnExistingRectangle ==
    /\ (event.op = "button_press_event" /\ event.err # "unhandled")
          => event.pre = "marker"
    /\ event.op \in {"CreateAverageTemperatureBox", "AddOverlayBox"}
          => (event.pre = "selector" /\ CurrentSelectionBox # Unset)

C4_ListsAppendOnly ==
    [][ /\ IsPrefix(MeasurementPoints, MeasurementPoints')
        /\ IsPrefix(BoxValues, BoxValues')
        /\ IsPrefix(OverlayBoxes, OverlayBoxes') ]_vars

\* A box was appended and a new selection rectangle was drawn after it.
C4_Witness ==
    /\ event.op = "SelectionBoxMouseClickCallback"
    /\ Len(MeasurementBoxes) >= 2
    /\ CurrentSelectionBox # Unset
    /\ CurrentSelectionBox[1] \notin Referenced(MeasurementBoxes)
    /\ heap[CurrentSelectionBox[1]] # heap[Last(MeasurementBoxes)]

\* C5: an AddOverlayBox call that fails for the current selection rectangle
\* leaves the overlays, the points and the boxes as they were.
C5_FailedOverlayKeepsLists ==
    [][ ( /\ event'.op = "AddOverlayBox"
          /\ \/ CurrentSelectionBox = Unset
             \/ BuildOverlay(heap[CurrentSelectionBox[1]], MainAxes).err # NoError )
        => ( /\ OverlayBoxes' = OverlayBoxes
             /\ MeasurementPoints' = MeasurementPoints
             /\ BoxValues' = BoxValues ) ]_vars

\* A failed overlay creation in a session that holds an overlay, a point and
\* a box already.
C5_Witness ==
    /\ event.op = "AddOverlayBox"
    /\ event.err = "ValueError"
    /\ OverlayBoxes # <<>>
    /\ MeasurementBoxes # <<>>

\* The selection rectangle from the display origin to the last display pixel.
WholeImage == Rect(0, 0, DisplayWidth - 1, DisplayHeight - 1)

\* trunc(X1/4) = trunc(X2/4) or trunc(Y1/4) = trunc(Y2/4).
Degenerate(box) ==
    \/ ScaleDown(box.X1) = ScaleDown(box.X2)
    \/ ScaleDown(box.Y1) = ScaleDown(box.Y2)

\* The cells of the base grid in rows r1..r2 and columns c1..c2, as an array.
Cells(r1, r2, c1, c2) ==
    [shape |-> <<Max(r2 - r1 + 1, 0), Max(c2 - c1 + 1, 0)>>,
     data  |-> [i \in 0 .. (r2 - r1) |->
                  [j \in 0 .. (c2 - c1) |-> ThermalData.data[r1 + i][c1 + j]]]]

\* The selection dicts the handlers have worked on: the current one and the
\* ones in MeasurementBoxes.
LiveBoxes == {heap[o] : o \in DOMAIN heap}

\* The box 'a' or 't' was last pressed on, when one was.
Acted ==
    /\ event.op \in {"CreateAverageTemperatureBox", "AddOverlayBox"}
    /\ CurrentSelectionBox # Unset

\* C6: the average of a box covering the whole image, from the display origin
\* to the last display pixel, is the arithmetic mean of all cells of the grid.
C6_WholeImageAverageIsGridMean ==
    \A i \in 1 .. Len(MeasurementBoxes) :
        BoxValues[i] = WholeImage =>
            /\ i <= Len(AverageTexts)
            /\ AverageTexts[i].num * ArraySize(ThermalData) =
                  SumRows(ThermalData, 0) * AverageTexts[i].den

C8_DegenerateRejected ==
    /\ \A i \in 1 .. Len(MeasurementBoxes) : ~Degenerate(BoxValues[i])
    /\ (Acted /\ Degenerate(heap[CurrentSelectionBox[1]])) => event.err # NoError

\* C9 as claimed: the average drawn for a box is the one computed when the
\* box was created; no redraw computes it again.
C9_AverageNotRecomputed ==
    \A i \in 1 .. Len(AverageTexts) : ~AverageTexts[i].recomputed

\* C9 as the code has it: every redraw computes the average of every box
\* again from the box's coordinates and the base grid, and the value it draws
\* for a box is the value drawn for that box before.
C9_AverageUnchangedByRedraw ==
    [][ \A i \in 1 .. Len(AverageTexts) :
           /\ i <= Len(AverageTexts')
           /\ AverageTexts'[i].num = AverageTexts[i].num
           /\ AverageTexts'[i].den = AverageTexts[i].den
           /\ (event'.op \in {"LowerSliderUpdate", "UpperSliderUpdate"}
                  => AverageTexts'[i].recomputed) ]_vars

\* A slider redraw drew the averages of two boxes again after a new selection.
C9_Witness ==
    /\ event.op = "UpperSliderUpdate"
    /\ Len(AverageTexts) >= 2
    /\ AverageTexts[1].recomputed
    /\ CurrentSelectionBox[1] \notin Referenced(MeasurementBoxes)

\* C10: a sampling click whose data index lies outside the grid it is read
\* from raises IndexError and appends no point.
C10_OutOfBoundsSampleFails ==
    \A ev \in SamplingClicks :
        ~InGrid(ev) =>
            /\ SampleTemperature(OverlayBoxes, ev).err = "IndexError"
            /\ AddMeasurementPointMouseClickCallback(MeasurementPoints, OverlayBoxes, ev)
                  = [points |-> MeasurementPoints, err |-> "IndexError"]

\* A click that raised IndexError in a session with an overlay.
C10_Witness ==
    /\ event.op = "button_press_event"
    /\ event.err = "IndexError"
    /\ OverlayBoxes # <<>>

\* The call of `fn` has returned.
Returned(fn) == call.fn = fn /\ call.done

\* C11: for a non-negative display coordinate d, mapping it to data space by
\* dividing by 4 and truncating and back by multiplying by 4 gives d' with
\* 0 <= d - d' < 4, in each axis.
C11_RoundTripWithinOneCell ==
    Returned("PlotMeasurementBoxes") =>
        /\ call.args.X1 >= 0 /\ call.args.Y1 >= 0
        /\ 0 <= call.args.X1 - call.ret.x /\ call.args.X1 - call.ret.x < Scale
        /\ 0 <= call.args.Y1 - call.ret.y /\ call.args.Y1 - call.ret.y < Scale

\* A frame drawn for a corner that is not on a cell boundary in either axis.
C11_Witness ==
    /\ Returned("PlotMeasurementBoxes")
    /\ call.args.X1 - call.ret.x = Scale - 1
    /\ call.args.Y1 - call.ret.y = 1
    /\ call.ret.x > 0

\* The cells of the loaded grid, and the cells scanned before (r, c) when the
\* grid is read row by row.
GridCells == (0 .. (ThermalData.shape[1] - 1)) \X (0 .. (ThermalData.shape[2] - 1))

ScannedBefore(rc) == {q \in GridCells : q[1] < rc[1] \/ (q[1] = rc[1] /\ q[2] < rc[2])}

Holders(v) == {q \in GridCells : ThermalData.data[q[1]][q[2]] = v}

\* The first cell holding v in row-major scan order.
FirstHolder(v) == CHOOSE q \in Holders(v) : ScannedBefore(q) \cap Holders(v) = {}

\* C12: for a non-empty grid the min/max query returns the least and the
\* greatest value of the grid, and each location returned is the first cell in
\* row-major scan order that holds the extreme value, as (4 * column, 4 * row).
C12_FirstRowMajorExtremes ==
    Returned("PlotMinMaxMarkers") =>
        LET lo == call.ret.MinTemperature
            hi == call.ret.MaxTemperature
        IN  /\ Holders(lo) # {} /\ Holders(hi) # {}
            /\ \A q \in GridCells : lo <= ThermalData.data[q[1]][q[2]]
                                    /\ ThermalData.data[q[1]][q[2]] <= hi
            /\ call.ret.MinLocation = <<Scale * FirstHolder(lo)[2], Scale * FirstHolder(lo)[1]>>
            /\ call.ret.MaxLocation = <<Scale * FirstHolder(hi)[2], Scale * FirstHolder(hi)[1]>>

\* A grid whose least value is in the second cell of the first row and the
\* first cell of the second row, and whose greatest value is in two cells too.
C12_Witness ==
    /\ Returned("PlotMinMaxMarkers")
    /\ Holders(call.ret.MinTemperature) = {<<0, 1>>, <<1, 0>>}
    /\ Cardinality(Holders(call.ret.MaxTemperature)) = 2
    /\ call.ret.MinLocation = <<Scale, 0>>

\* C13: normalizing a grid whose cells are all equal fails with a
\* DegenerateRange error instead of dividing by zero; for a grid with
\* max > min every normalized cell is (value - min) / (max - min) and lies in
\* [0, 1].
C13_UniformGridRaisesDegenerateRange ==
    Returned("RescaleImageColorMap") =>
        LET arr == call.args
            lo == amin(arr)
            hi == amax(arr)
            out == call.ret.NormalizedImage
        IN  IF hi = lo
            THEN call.ret.err = "DegenerateRange"
            ELSE /\ call.ret.err = NoError
                 /\ \A i \in 0 .. (arr.shape[1] - 1), j \in 0 .. (arr.shape[2] - 1) :
                       /\ out.data[i][j].den > 0
                       /\ out.data[i][j].num * (hi - lo) =
                             (arr.data[i][j] - lo) * out.data[i][j].den
                       /\ 0 <= out.data[i][j].num
                       /\ out.data[i][j].num <= out.data[i][j].den

\* a | b over the bits from bit i up, for numbers below 2^(WordBits + ByteBits).
RECURSIVE BitOr(_, _, _)
BitOr(a, b, i) ==
    IF i >= WordBits + ByteBits THEN 0
    ELSE (Max((a \div (2 ^ i)) % 2, (b \div (2 ^ i)) % 2) * (2 ^ i)) + BitOr(a, b, i + 1)

\* C14: for a 16-bit raw value and the little-endian byte order the corrected
\* value is (raw >> 8) | ((raw & 0xFF) << 8), the high and the low byte
\* swapped and the result within 16 bits; for any other byte order the raw
\* value is passed through unchanged.
C14_BytesSwappedForLittleEndian ==
    Returned("GetThermalData") =>
        LET raw == call.args.ImageData
            out == call.ret
        IN  IF call.args.ExifByteOrder = LittleEndian
            THEN /\ out = BitOr(raw \div 256, (raw % 256) * 256, 0)
                 /\ out \div 256 = raw % 256
                 /\ out % 256 = raw \div 256
                 /\ out \in 0 .. 65535
            ELSE out = raw

\* 0x1234 was read from a little-endian file and came out as 0x3412.
C14_Witness ==
    /\ Returned("GetThermalData")
    /\ call.args.ExifByteOrder = LittleEndian
    /\ call.args.ImageData = 4660
    /\ call.ret = 13330

\* C15: the number of click handlers connected for point marking is 1 when
\* point-marking mode is on and 0 when it is off, so a click in point-marking
\* mode appends at most one measurement point and a click outside it appends
\* none.
C15_OneHandlerInMarkerModeOnly ==
    /\ Cardinality(callbacks) = (IF MeasurementPointActive THEN 1 ELSE 0)
    /\ MeasurementPointActive => callbacks = {MeasurementPointMouseEventCallbackID[1]}
    /\ \A ev \in ClickInputs :
          LET r == Dispatch(Cardinality(callbacks), MeasurementPoints, OverlayBoxes, ev)
          IN  /\ IsPrefix(MeasurementPoints, r.points)
              /\ Len(r.points) <= Len(MeasurementPoints) + 1
              /\ ~MeasurementPointActive => r.points = MeasurementPoints
    /\ (event.op = "button_press_event" /\ event.pre # "marker")
          => event.err = "unhandled"

\* A click appended a point in marker mode, entered again after an overlay
\* was made in selector mode.
C15_Witness ==
    /\ event.op = "button_press_event"
    /\ event.pre = "marker"
    /\ event.err = NoError
    /\ Cardinality(callbacks) = 1
    /\ Len(MeasurementPoints) >= 2
    /\ OverlayBoxes # <<>>

=============================================================================
